---- MODULE Spec2Model ----
(***************************************************************************)
(* NDAX connector: the order book data source (instrument directory,       *)
(* hourly REST snapshot loop, websocket diff loop) as a state machine.     *)
(* Every await of the Python code is a step boundary: one action runs from *)
(* the completion of one await to the start of the next one.               *)
(***************************************************************************)
EXTENDS Integers, Sequences, FiniteSets, TLC

VARIABLES
    now,                \* wall clock, in seconds
    ticks,              \* number of clock advances so far
    tradingPairIdMap,   \* NdaxAPIOrderBookDataSource._trading_pair_id_map
    everRefreshed,      \* history: some refresh has succeeded
    lastGood,           \* history: mapping installed by the last successful refresh
    lastRefresh,        \* history: how the last finished refresh ended
    lastInstruments,    \* history: the instrument list of the last successful refresh
    lastRefreshRaised,  \* history: the last finished refresh raised to its caller
    refreshStart,       \* history, per task: the mapping when its pending refresh began
    refreshHadGood,     \* history, per task: everRefreshed when its pending refresh began
    snapPc,             \* position of listen_for_order_book_snapshots
    snapIdx,            \* index in _trading_pairs of the pair being processed
    snapWake,           \* time at which the pending asyncio.sleep returns
    snapOutcome,        \* "running" | "cancelled"
    snapCycle,          \* number of the current pass of the while loop
    snapLog,            \* history: one record per finished pair attempt
    snapCycleEndAt,     \* history: time the last for loop ended (-1: none yet)
    snapReqId,          \* InstrumentId sent in the pending GetL2Snapshot request
    snapLast,           \* history: responses and exception of the attempt last ended
    pricePc,            \* position of get_last_traded_prices
    priceIdx,           \* index in trading_pairs of the pair being queried
    priceCalls,         \* number of get_last_traded_prices calls started
    priceOutcome,       \* result of the last call
    priceResults,       \* pairs for which the call has collected a price
    priceListed,        \* history: the pairs listed by the refresh of the running call
    diffPc,             \* position of listen_for_order_book_diffs
    diffOutcome,        \* "running" | "cancelled" | "UnboundLocalError"
    diffPending,        \* exception in flight while the finally clause runs
    ws,                 \* the local variable ws: 0 = unbound, else a connection id
    connCount,          \* number of connections opened so far
    connOpen,           \* ids of the connections that are open
    subsSent,           \* subscription requests sent on the current connection
    diffWake,           \* time at which the pending asyncio.sleep(30) returns
    diffIterEnd,        \* history: what ended the iteration now being left
    diffIterEndAt,      \* history: when it ended
    diffPrevEnd,        \* history: what ended the iteration before the current one
    diffCancelAt,       \* history: suspension point at which cancellation arrived
    lastFrame,          \* history: the frame the loop body last ran on, while its
                        \* connection is in use or is being left because of it
    output,             \* the output asyncio.Queue
    book,               \* the order book state of one instrument
    bookApplied,        \* history: the message last handed to the book
    bookPrev,           \* history: the book before that message was applied
    tradingRules,       \* NdaxExchange._trading_rules
    rulesPc,            \* position of _trading_rules_polling_loop
    rulesSleep,         \* length in ms of the pending asyncio.sleep (0: none)
    rulesOutcome,       \* "running" | "cancelled"
    rulesLast,          \* history: status and body of the request last answered
    orderCount,         \* number of buy and sell calls so far
    orders,             \* per order id: arguments and position of its _create_order
    orderEvents,        \* per order id: the events triggered for it, in order
    accountBalances,    \* NdaxExchange._account_balances
    accountAvailableBalances, \* NdaxExchange._account_available_balances
    statusPc,           \* position of _status_polling_loop
    statusOutcome,      \* "running" | "cancelled"
    pollNotifierSet,    \* whether the Event held by self._poll_notifier is set
    lastTimestamp,      \* NdaxExchange._last_timestamp
    statusTicks,        \* number of tick() calls so far
    localAssetNames,    \* local_asset_names of the _update_balances call in progress
    balancesLast,       \* history: assets of the response of the last successful update
    pollDue,            \* history: a tick has crossed a poll boundary and no update
                        \* has started since
    syncNow,            \* clock shared by the exchange and the connector, in seconds
    exchangeQty,        \* quantity the exchange holds at the one price level
    exchangeUpdates,    \* number of changes of that quantity so far
    wsPipe,             \* Level2UpdateEvent frames sent and not yet received
    restPc,             \* position of the snapshot fetch
    restBody,           \* entries of the GetL2Snapshot response in flight
    syncQueue,          \* the output queue, as read by the consumer
    snapshotsApplied    \* number of REST snapshots the consumer has applied

clockVars == <<now, ticks>>
dirVars   == <<tradingPairIdMap, everRefreshed, lastGood, lastRefresh,
               lastInstruments, lastRefreshRaised, refreshStart, refreshHadGood>>
snapVars  == <<snapPc, snapIdx, snapWake, snapOutcome, snapCycle, snapLog,
               snapCycleEndAt, snapReqId, snapLast>>
priceVars == <<pricePc, priceIdx, priceCalls, priceOutcome, priceResults,
               priceListed>>
diffVars  == <<diffPc, diffOutcome, diffPending, ws, connCount, connOpen, subsSent,
               diffWake, diffIterEnd, diffIterEndAt, diffPrevEnd, diffCancelAt,
               lastFrame>>
bookVars  == <<book, bookApplied, bookPrev>>
tradeVars == <<tradingRules, rulesPc, rulesSleep, rulesOutcome, rulesLast,
               orderCount, orders, orderEvents>>
statusVars == <<accountBalances, accountAvailableBalances, statusPc, statusOutcome,
                pollNotifierSet, lastTimestamp, statusTicks, localAssetNames,
                balancesLast, pollDue>>
syncVars  == <<syncNow, exchangeQty, exchangeUpdates, wsPipe, restPc, restBody,
               syncQueue, snapshotsApplied>>
srcVars   == <<clockVars, dirVars, snapVars, priceVars, diffVars, output>>
vars      == <<srcVars, bookVars, tradeVars, statusVars, syncVars>>

\* What the actions of one part of the model leave alone.
outsideSrc    == <<bookVars, tradeVars, statusVars, syncVars>>
outsideBook   == <<srcVars, tradeVars, statusVars, syncVars>>
outsideTrade  == <<srcVars, bookVars, statusVars, syncVars>>
outsideStatus == <<srcVars, bookVars, tradeVars, syncVars>>
outsideSync   == <<srcVars, tradeVars, statusVars>>

----
(* Bounds of the model *)
MaxTicks      == 4
MaxCycles     == 2
MaxPriceCalls == 1
MaxConns      == 2
MaxDiffMsgs   == 2
MaxUpdateId   == 3
MaxOrders     == 1
MaxStatusTicks == 3
MaxSyncTime   == 3
MaxExchangeUpdates == 2

(* Program constants *)
SnapshotRetrySleep == 5
DiffRetrySleep     == 30
Hour               == 3600
MillisPerSecond    == 1000
RulesRetrySleepMs  == 500
RulesIntervalMs    == 60000
ShortPollInterval  == 5
LongPollInterval   == 120

\* Python None in the instrument_id metadata field (InstrumentIds are >= 1).
NoneId == 0

\* self._trading_pairs, in tracked order
TradingPairs == <<"BTC-CAD", "ETH-CAD">>

Tasks == {"snap", "price"}

\* How far the clock may move between two steps of the tasks: the amounts that
\* matter to the sleeps of the REST tasks, and to the sleep of the diff loop.
RestClockSteps == {1, SnapshotRetrySleep, Hour}
DiffClockSteps == {1, DiffRetrySleep}

----
(* Instrument directory *)

Instrument(base, quote, id) ==
    [Product1Symbol |-> base, Product2Symbol |-> quote, InstrumentId |-> id]

\* Bodies the GetInstruments endpoint may answer with; in the second one
\* ETH-CAD is no longer listed and BTC-CAD is listed twice.
InstrumentLists ==
    { <<Instrument("BTC", "CAD", 1), Instrument("ETH", "CAD", 2)>>,
      <<Instrument("BTC", "CAD", 7), Instrument("BTC", "CAD", 1)>> }

HttpOutcomes == {"200", "non200", "error"}

\* dict.update({k: v})
DictUpdate(d, k, v) == [x \in (DOMAIN d) \cup {k} |-> IF x = k THEN v ELSE d[x]]

\* f"{instrument['Product1Symbol']}-{instrument['Product2Symbol']}"
PairKey(instrument) == instrument.Product1Symbol \o "-" \o instrument.Product2Symbol

\* Mutant: only the first instrument of the body is taken.
UpdateAll_FirstOnly(results, instruments) ==
    IF instruments = <<>> THEN results
    ELSE DictUpdate(results, PairKey(Head(instruments)),
                    Head(instruments).InstrumentId)

\* for instrument in resp_json: results.update({...})
RECURSIVE UpdateAll(_, _)
UpdateAll(results, instruments) ==
    IF instruments = <<>> THEN results
    ELSE UpdateAll(DictUpdate(results, PairKey(Head(instruments)),
                              Head(instruments).InstrumentId),
                   Tail(instruments))

\* _trading_pair_id_map.clear()
ClearedMap == <<>>

\* The value assigned to cls._trading_pair_id_map when the request returned.
RefreshResults(status, instruments) ==
    IF status = "200" THEN UpdateAll(<<>>, instruments) ELSE <<>>

\* init_trading_pair_ids raises to its caller only when the request itself
\* raised: the status test of line 58 has no else branch.
RefreshRaises(status) == status = "error"

\* dict.get(key, None)
DictGet(d, k) == IF k \in DOMAIN d THEN d[k] ELSE NoneId

\* History bookkeeping of a refresh started by task t (line 50 clears the map
\* before the request is sent).
BeginRefresh(t) ==
    /\ tradingPairIdMap' = ClearedMap
    /\ refreshStart' = [refreshStart EXCEPT ![t] = tradingPairIdMap]
    /\ refreshHadGood' = [refreshHadGood EXCEPT ![t] = everRefreshed]
    /\ UNCHANGED <<everRefreshed, lastGood, lastRefresh, lastInstruments,
                   lastRefreshRaised>>

\* Mutant: a response with another status keeps the mapping of the last
\* successful refresh.
MapAfterRefresh_KeepOld(status, instruments) ==
    IF status = "200" THEN RefreshResults(status, instruments) ELSE lastGood

\* The mapping after the request of a refresh has ended: an exception leaves
\* line 65 unexecuted, any response executes it.
MapAfterRefresh(status, instruments) ==
    IF RefreshRaises(status) THEN tradingPairIdMap
    ELSE RefreshResults(status, instruments)

FinishRefresh(t, status, instruments) ==
    /\ tradingPairIdMap' = MapAfterRefresh(status, instruments)
    /\ everRefreshed' = (everRefreshed \/ status = "200")
    /\ lastGood' = IF status = "200" THEN RefreshResults(status, instruments)
                   ELSE lastGood
    /\ lastRefresh' = status
    /\ lastInstruments' = IF status = "200" THEN instruments ELSE lastInstruments
    /\ lastRefreshRaised' = RefreshRaises(status)
    /\ refreshStart' = [refreshStart EXCEPT ![t] = <<>>]
    /\ refreshHadGood' = [refreshHadGood EXCEPT ![t] = FALSE]

----
(* Clock *)

Tick(steps) ==
    /\ ticks < MaxTicks
    /\ \E d \in steps : now' = now + d
    /\ ticks' = ticks + 1

----
(* listen_for_order_book_snapshots *)

\* How the GetL2Snapshot request and the wrapping of its body may end: only
\* "200" reaches put_nowait; "parse" is NdaxOrderBookEntry(*entry) raising,
\* "wrap" is snapshot_message_from_exchange or apply_snapshot raising.
OrderBookOutcomes == {"200", "non200", "error", "parse", "wrap"}

\* Mutant: only a request that raised fails the fetch.
OrderBookRaises_NoStatusTest(status) == status \in {"error", "parse", "wrap"}

\* get_new_order_book raises unless the response has status 200 and its body
\* is wrapped without an exception.
OrderBookRaises(status) == status # "200"

\* The exception the except branch of the loop catches: line 135 raises IOError
\* after awaiting response.json(), which raises itself on a body that is not JSON.
OrderBookErrors(status) ==
    CASE status = "non200" -> {"IOError", "ContentTypeError"}
      [] status = "error"  -> {"ClientError"}
      [] status = "parse"  -> {"TypeError"}
      [] status = "wrap"   -> {"WrapError"}
      [] OTHER             -> {}

\* The attempt last ended: status of its two responses, exception it raised.
Attempt(refresh, orderbook, error) ==
    [refresh |-> refresh, orderbook |-> orderbook, error |-> error]

NoAttempt == Attempt("none", "none", "none")

\* int(time.time() * 1e3)
TimestampMs(t) == t * MillisPerSecond

\* NdaxOrderBook.snapshot_message_from_exchange(msg, timestamp, metadata)
SnapshotMessage(pair, instrumentId, t) ==
    [type |-> "snapshot", source |-> "rest", update_id |-> TimestampMs(t),
     trading_pair |-> pair, instrument_id |-> instrumentId]

\* Mutant: the message is put twice.
SnapshotPut_Twice(queue, msg) == Append(Append(queue, msg), msg)

\* output.put_nowait(snapshot_message)
SnapshotPut(queue, msg) == Append(queue, msg)

\* Mutant: the except branch leaves the for loop (the rest of the cycle is dropped).
PairAfterFailure_Abort(i) == Len(TradingPairs) + 1

\* The for loop goes on with the next pair after the except branch.
PairAfterFailure(i) == i + 1

\* asyncio.sleep(5.0) in the per-pair except branch
SnapshotRetryWake(t) == t + SnapshotRetrySleep

\* Mutant: the hour is not added, the sleep is over at once.
NextHour_ThisHour(t) == (t \div Hour) * Hour

\* next_hour = utcnow().replace(minute=0, second=0, microsecond=0) + 1 hour
NextHour(t) == (t \div Hour) * Hour + Hour

LogEntry(ok) == [cycle |-> snapCycle, pair |-> TradingPairs[snapIdx], ok |-> ok]

\* Control reaches pair number i of the for loop, or the code after the loop.
SnapGoto(i) ==
    IF i <= Len(TradingPairs)
    THEN /\ snapPc' = "refresh"
         /\ snapIdx' = i
         /\ snapWake' = 0
         /\ BeginRefresh("snap")
         /\ UNCHANGED snapCycleEndAt
    ELSE /\ snapPc' = "hourSleep"
         /\ snapIdx' = i
         /\ snapWake' = NextHour(now)
         /\ snapCycleEndAt' = now
         /\ UNCHANGED dirVars

\* except Exception: log, sleep 5 s
SnapFail(attempt) ==
    /\ snapPc' = "pairSleep"
    /\ snapLast' = attempt
    /\ snapWake' = SnapshotRetryWake(now)
    /\ snapLog' = Append(snapLog, LogEntry(FALSE))
    /\ snapReqId' = NoneId
    /\ UNCHANGED <<snapIdx, snapOutcome, snapCycle, snapCycleEndAt, output>>

SnapStart ==
    /\ snapPc = "start"
    /\ SnapGoto(1)
    /\ UNCHANGED <<snapOutcome, snapCycle, snapLog, snapReqId, snapLast, output>>
    /\ UNCHANGED <<clockVars, priceVars, diffVars>>
    /\ UNCHANGED outsideSrc

\* The GetInstruments request of init_trading_pair_ids ends; then line 129
\* looks the pair up and the GetL2Snapshot request is sent.
SnapRefreshDone ==
    /\ snapPc = "refresh"
    /\ \E status \in HttpOutcomes, instruments \in InstrumentLists :
         LET newMap == MapAfterRefresh(status, instruments)
             pair == TradingPairs[snapIdx]
         IN  /\ FinishRefresh("snap", status, instruments)
             /\ IF ~RefreshRaises(status) /\ pair \in DOMAIN newMap
                THEN /\ snapPc' = "orderbook"
                     /\ snapReqId' = newMap[pair]
                     /\ snapLast' = Attempt(status, "pending", "none")
                     /\ UNCHANGED <<snapIdx, snapWake, snapOutcome, snapCycle,
                                    snapLog, snapCycleEndAt, output>>
                ELSE SnapFail(Attempt(status, "none",
                                      IF RefreshRaises(status) THEN "ClientError"
                                      ELSE "KeyError"))
    /\ UNCHANGED <<clockVars, priceVars, diffVars>>
    /\ UNCHANGED outsideSrc

\* The GetL2Snapshot request ends; on success the message is built and put,
\* and the for loop goes on.
SnapOrderBookDone ==
    /\ snapPc = "orderbook"
    /\ \E status \in OrderBookOutcomes :
         IF ~OrderBookRaises(status)
         THEN /\ output' = SnapshotPut(output,
                    SnapshotMessage(TradingPairs[snapIdx],
                                    DictGet(tradingPairIdMap, TradingPairs[snapIdx]),
                                    now))
              /\ snapLog' = Append(snapLog, LogEntry(TRUE))
              /\ SnapGoto(snapIdx + 1)
              /\ snapReqId' = NoneId
              /\ snapLast' = Attempt(snapLast.refresh, status, "none")
              /\ UNCHANGED <<snapOutcome, snapCycle>>
         ELSE /\ \E error \in OrderBookErrors(status) :
                   SnapFail(Attempt(snapLast.refresh, status, error))
              /\ UNCHANGED dirVars
    /\ UNCHANGED <<clockVars, priceVars, diffVars>>
    /\ UNCHANGED outsideSrc

SnapPairSleepDone ==
    /\ snapPc = "pairSleep"
    /\ now >= snapWake
    /\ SnapGoto(PairAfterFailure(snapIdx))
    /\ snapLast' = NoAttempt
    /\ UNCHANGED <<snapOutcome, snapCycle, snapLog, snapReqId, output>>
    /\ UNCHANGED <<clockVars, priceVars, diffVars>>
    /\ UNCHANGED outsideSrc

SnapHourSleepDone ==
    /\ snapPc = "hourSleep"
    /\ now >= snapWake
    /\ snapCycle < MaxCycles
    /\ snapCycle' = snapCycle + 1
    /\ SnapGoto(1)
    /\ UNCHANGED <<snapOutcome, snapLog, snapReqId, snapLast, output>>
    /\ UNCHANGED <<clockVars, priceVars, diffVars>>
    /\ UNCHANGED outsideSrc

SnapSuspended == snapPc \in {"refresh", "orderbook", "pairSleep", "hourSleep"}

\* except asyncio.CancelledError: raise
SnapCancel ==
    /\ SnapSuspended
    /\ snapPc' = "done"
    /\ snapOutcome' = "cancelled"
    /\ snapWake' = 0
    /\ snapReqId' = NoneId
    /\ snapLast' = NoAttempt
    /\ UNCHANGED <<snapIdx, snapCycle, snapLog, snapCycleEndAt>>
    /\ UNCHANGED <<clockVars, dirVars, priceVars, diffVars, output>>
    /\ UNCHANGED outsideSrc

----
(* get_last_traded_prices(trading_pairs = TradingPairs) *)

PriceReturn(outcome) ==
    /\ pricePc' = "idle"
    /\ priceOutcome' = outcome
    /\ priceListed' = {}
    /\ UNCHANGED priceIdx

\* Line 87 for pair number i, against mapping m; past the last pair the call returns.
PriceLookup(i, m) ==
    IF i > Len(TradingPairs) THEN PriceReturn("ok")
    ELSE IF TradingPairs[i] \in DOMAIN m
         THEN /\ pricePc' = "level1"
              /\ priceIdx' = i
              /\ priceListed' = IF pricePc = "refresh" THEN DOMAIN m ELSE priceListed
              /\ UNCHANGED priceOutcome
         ELSE PriceReturn("KeyError")

PriceStart ==
    /\ pricePc = "idle"
    /\ priceCalls < MaxPriceCalls
    /\ priceCalls' = priceCalls + 1
    /\ pricePc' = "refresh"
    /\ priceIdx' = 1
    /\ priceOutcome' = "running"
    /\ priceResults' = {}
    /\ priceListed' = {}
    /\ BeginRefresh("price")
    /\ UNCHANGED <<clockVars, snapVars, diffVars, output>>
    /\ UNCHANGED outsideSrc

PriceRefreshDone ==
    /\ pricePc = "refresh"
    /\ \E status \in HttpOutcomes, instruments \in InstrumentLists :
         /\ FinishRefresh("price", status, instruments)
         /\ IF RefreshRaises(status) THEN PriceReturn("error")
            ELSE PriceLookup(1, MapAfterRefresh(status, instruments))
    /\ UNCHANGED <<priceCalls, priceResults>>
    /\ UNCHANGED <<clockVars, snapVars, diffVars, output>>
    /\ UNCHANGED outsideSrc

PriceLevel1Done ==
    /\ pricePc = "level1"
    /\ \E status \in HttpOutcomes :
         IF status = "error"
         THEN PriceReturn("error") /\ UNCHANGED priceResults
         ELSE /\ priceResults' = IF status = "200"
                                 THEN priceResults \cup {TradingPairs[priceIdx]}
                                 ELSE priceResults
              /\ PriceLookup(priceIdx + 1, tradingPairIdMap)
    /\ UNCHANGED priceCalls
    /\ UNCHANGED <<clockVars, dirVars, snapVars, diffVars, output>>
    /\ UNCHANGED outsideSrc

----
(* listen_for_order_book_diffs *)

\* CONSTANTS.WS_ORDER_BOOK_CHANNEL, CONSTANTS.WS_ORDER_BOOK_L2_UPDATE_EVENT
WS_ORDER_BOOK_CHANNEL == "SubscribeLevel2"
WS_ORDER_BOOK_L2_UPDATE_EVENT == "Level2UpdateEvent"

NoPair == "None"

\* NdaxOrderBookEntry(*entry), reduced to the fields the loop and the book read.
Entry(t, side, price, quantity) ==
    [actionDateTime |-> t, side |-> side, price |-> price, quantity |-> quantity]

EntryA == Entry(2000, "bid", 100, 2)
EntryB == Entry(7000, "ask", 101, 3)

\* Entry batches a frame may carry in its "o" field.
Batches == { <<>>, <<EntryA>>, <<EntryB, EntryA>> }

\* Inbound frames: the two order book events with every batch, a frame of
\* another event, and one that ujson.loads or msg["n"] rejects.
Frames ==
    [n : {WS_ORDER_BOOK_CHANNEL, WS_ORDER_BOOK_L2_UPDATE_EVENT}, o : Batches]
    \cup {[n |-> "Ping", o |-> <<EntryA>>], [n |-> "malformed", o |-> <<>>]}

NoFrame == [n |-> "none", o |-> <<>>]

\* Mutant: the timestamp of the last entry of the batch.
MaxActionDateTime_Last(batch) == batch[Len(batch)].actionDateTime

\* max([e.actionDateTime for e in msg_data]); only called on a non-empty batch
MaxActionDateTime(batch) ==
    CHOOSE t \in {batch[i].actionDateTime : i \in DOMAIN batch} :
        \A i \in DOMAIN batch : batch[i].actionDateTime <= t

\* Mutant: the event name is not tested.
IsRelevant_AnyEvent(event) == event # "malformed"

\* msg_event not in [WS_ORDER_BOOK_CHANNEL, WS_ORDER_BOOK_L2_UPDATE_EVENT]
IsRelevant(event) == event \in {WS_ORDER_BOOK_CHANNEL, WS_ORDER_BOOK_L2_UPDATE_EVENT}

\* Mutant: every frame is wrapped as a diff.
DiffLoopMessage_AlwaysDiff(frame) ==
    [type |-> "diff",
     source |-> "ws", update_id |-> MaxActionDateTime(frame.o),
     trading_pair |-> NoPair, instrument_id |-> NoneId, data |-> frame.o]

\* snapshot_message_from_exchange / diff_message_from_exchange, chosen by event
DiffLoopMessage(frame) ==
    [type |-> IF frame.n = WS_ORDER_BOOK_CHANNEL THEN "snapshot" ELSE "diff",
     source |-> "ws", update_id |-> MaxActionDateTime(frame.o),
     trading_pair |-> NoPair, instrument_id |-> NoneId, data |-> frame.o]

\* Whether processing the frame raises (bad JSON, or max() of an empty list).
FrameRaises(frame) ==
    \/ frame.n = "malformed"
    \/ IsRelevant(frame.n) /\ frame.o = <<>>

\* The subscription request sent for a tracked pair.
SubscribeRequest(pair) == [endpoint |-> WS_ORDER_BOOK_CHANNEL, pair |-> pair]

\* asyncio.sleep(30.0) in the except branch
DiffRetryWake(t) == t + DiffRetrySleep

\* Whether the finally clause can evaluate ws (it is a local, unbound until a
\* connection has been opened in some iteration).
WsBound == ws # 0

\* The finally clause is entered with the given exception in flight:
\* `await ws.close()` raises UnboundLocalError when ws was never bound.
DiffFinally(pending) ==
    IF WsBound
    THEN /\ diffPc' = "cleanup"
         /\ diffPending' = pending
         /\ UNCHANGED diffOutcome
    ELSE /\ diffPc' = "done"
         /\ diffPending' = "none"
         /\ diffOutcome' = "UnboundLocalError"

\* except Exception: log, then sleep 30 s
DiffFail ==
    /\ diffPc' = "backoff"
    /\ diffWake' = DiffRetryWake(now)
    /\ diffIterEnd' = "error"
    /\ diffIterEndAt' = now
    /\ UNCHANGED <<diffOutcome, diffPending, diffPrevEnd, diffCancelAt>>

\* `async with websockets.connect(...)` closes the connection when its body is left.
ConnClosed == connOpen \ {ws}

DiffStart ==
    /\ diffPc = "start"
    /\ UNCHANGED lastFrame
    /\ diffPc' = "connect"
    /\ UNCHANGED <<diffOutcome, diffPending, ws, connCount, connOpen, subsSent,
                   diffWake, diffIterEnd, diffIterEndAt, diffPrevEnd, diffCancelAt>>
    /\ UNCHANGED <<clockVars, dirVars, snapVars, priceVars, output>>
    /\ UNCHANGED outsideSrc

DiffConnectOk ==
    /\ diffPc = "connect"
    /\ UNCHANGED lastFrame
    /\ connCount < MaxConns
    /\ connCount' = connCount + 1
    /\ ws' = connCount + 1
    /\ connOpen' = connOpen \cup {connCount + 1}
    /\ subsSent' = <<>>
    /\ diffPc' = "subscribe"
    /\ UNCHANGED <<diffOutcome, diffPending, diffWake, diffIterEnd, diffIterEndAt,
                   diffPrevEnd, diffCancelAt>>
    /\ UNCHANGED <<clockVars, dirVars, snapVars, priceVars, output>>
    /\ UNCHANGED outsideSrc

DiffConnectFail ==
    /\ diffPc = "connect"
    /\ UNCHANGED lastFrame
    /\ DiffFail
    /\ UNCHANGED <<ws, connCount, connOpen, subsSent>>
    /\ UNCHANGED <<clockVars, dirVars, snapVars, priceVars, output>>
    /\ UNCHANGED outsideSrc

\* One send_request of the for loop returns; after the last one the loop
\* starts iterating the inbound frames.
DiffSubscribeOk ==
    /\ diffPc = "subscribe"
    /\ UNCHANGED lastFrame
    /\ subsSent' = Append(subsSent, SubscribeRequest(TradingPairs[Len(subsSent) + 1]))
    /\ diffPc' = IF Len(subsSent) + 1 = Len(TradingPairs) THEN "recv" ELSE "subscribe"
    /\ UNCHANGED <<diffOutcome, diffPending, ws, connCount, connOpen, diffWake,
                   diffIterEnd, diffIterEndAt, diffPrevEnd, diffCancelAt>>
    /\ UNCHANGED <<clockVars, dirVars, snapVars, priceVars, output>>
    /\ UNCHANGED outsideSrc

DiffSubscribeFail ==
    /\ diffPc = "subscribe"
    /\ UNCHANGED lastFrame
    /\ connOpen' = ConnClosed
    /\ DiffFail
    /\ UNCHANGED <<ws, connCount, subsSent>>
    /\ UNCHANGED <<clockVars, dirVars, snapVars, priceVars, output>>
    /\ UNCHANGED outsideSrc

\* iter_messages yields one frame and the loop body runs on it.
DiffRecvFrame ==
    /\ diffPc = "recv"
    /\ \E frame \in Frames :
         /\ lastFrame' = frame
         /\ IF FrameRaises(frame)
            THEN /\ connOpen' = ConnClosed
                 /\ DiffFail
                 /\ UNCHANGED <<ws, connCount, subsSent, output>>
            ELSE /\ IF IsRelevant(frame.n)
                    THEN /\ Len(SelectSeq(output, LAMBDA m : m.source = "ws"))
                              < MaxDiffMsgs
                         /\ output' = Append(output, DiffLoopMessage(frame))
                    ELSE UNCHANGED output
                 /\ UNCHANGED <<diffPc, diffOutcome, diffPending, ws, connCount,
                                connOpen, subsSent, diffWake, diffIterEnd,
                                diffIterEndAt, diffPrevEnd, diffCancelAt>>
    /\ UNCHANGED <<clockVars, dirVars, snapVars, priceVars>>
    /\ UNCHANGED outsideSrc

\* iter_messages (or the connection under it) raises.
DiffRecvError ==
    /\ diffPc = "recv"
    /\ lastFrame' = NoFrame
    /\ connOpen' = ConnClosed
    /\ DiffFail
    /\ UNCHANGED <<ws, connCount, subsSent>>
    /\ UNCHANGED <<clockVars, dirVars, snapVars, priceVars, output>>
    /\ UNCHANGED outsideSrc

\* iter_messages ends because the connection closed: the async for and the
\* async with are left without an exception, then the finally clause runs.
DiffEndOfStream ==
    /\ diffPc = "recv"
    /\ lastFrame' = NoFrame
    /\ connOpen' = ConnClosed
    /\ diffIterEnd' = "eos"
    /\ diffIterEndAt' = now
    /\ DiffFinally("none")
    /\ UNCHANGED <<ws, connCount, subsSent, diffWake, diffPrevEnd, diffCancelAt>>
    /\ UNCHANGED <<clockVars, dirVars, snapVars, priceVars, output>>
    /\ UNCHANGED outsideSrc

\* The 30 s sleep of the except branch returns; the finally clause runs.
DiffBackoffDone ==
    /\ diffPc = "backoff"
    /\ UNCHANGED lastFrame
    /\ now >= diffWake
    /\ diffWake' = 0
    /\ DiffFinally("none")
    /\ UNCHANGED <<ws, connCount, connOpen, subsSent, diffIterEnd, diffIterEndAt,
                   diffPrevEnd, diffCancelAt>>
    /\ UNCHANGED <<clockVars, dirVars, snapVars, priceVars, output>>
    /\ UNCHANGED outsideSrc

\* `await ws.close()` of the finally clause returns: the exception in flight,
\* if any, goes on; otherwise the while loop starts its next iteration.
DiffCleanupDone ==
    /\ diffPc = "cleanup"
    /\ lastFrame' = NoFrame
    /\ connOpen' = ConnClosed
    /\ diffPending' = "none"
    /\ IF diffPending = "cancel"
       THEN /\ diffPc' = "done"
            /\ diffOutcome' = "cancelled"
            /\ UNCHANGED <<diffIterEnd, diffIterEndAt, diffPrevEnd>>
       ELSE /\ diffPc' = "connect"
            /\ diffPrevEnd' = diffIterEnd
            /\ diffIterEnd' = "none"
            /\ diffIterEndAt' = 0
            /\ UNCHANGED diffOutcome
    /\ UNCHANGED <<ws, connCount, subsSent, diffWake, diffCancelAt>>
    /\ UNCHANGED <<clockVars, dirVars, snapVars, priceVars, output>>
    /\ UNCHANGED outsideSrc

DiffSuspended == diffPc \in {"connect", "subscribe", "recv", "backoff", "cleanup"}

\* asyncio.CancelledError is raised at the await the loop is suspended in.
DiffCancel ==
    /\ DiffSuspended
    /\ lastFrame' = NoFrame
    /\ diffCancelAt' = diffPc
    /\ diffWake' = 0
    /\ IF diffPc = "cleanup"
       THEN /\ diffPc' = "done"
            /\ diffOutcome' = "cancelled"
            /\ diffPending' = "none"
            /\ UNCHANGED connOpen
       ELSE /\ connOpen' = IF diffPc \in {"subscribe", "recv"} THEN ConnClosed
                           ELSE connOpen
            /\ DiffFinally("cancel")
    /\ UNCHANGED <<ws, connCount, subsSent, diffIterEnd, diffIterEndAt, diffPrevEnd>>
    /\ UNCHANGED <<clockVars, dirVars, snapVars, priceVars, output>>
    /\ UNCHANGED outsideSrc

----
(* Order book state of one instrument: two maps from price to quantity and *)
(* the update id of the message applied last.                              *)

EmptyBook == [bids |-> <<>>, asks |-> <<>>, update_id |-> 0]

\* Price levels a message may carry: (side, price, quantity).
Level(side, price, quantity) == [side |-> side, price |-> price, quantity |-> quantity]

Levels ==
    { Level("bid", 100, 2), Level("ask", 101, 3), Level("bid", 100, 0),
      Level("ask", 101, -1), Level("bid", 99, 4) }

\* Batches of at most two levels.
LevelBatches ==
    {<<>>} \cup {<<a>> : a \in Levels} \cup {<<a, b>> : a, b \in Levels}

UpdateIds == 1..MaxUpdateId

BookMessage(type, updateId, entries) ==
    [type |-> type, update_id |-> updateId, entries |-> entries]

BookMessages == {BookMessage(type, u, entries) :
                    type \in {"snapshot", "diff"}, u \in UpdateIds,
                    entries \in LevelBatches}

NoMessage == BookMessage("none", 0, <<>>)

SideOf(level) == IF level.side = "bid" THEN "bids" ELSE "asks"

\* dict.pop(k, None)
DictRemove(d, k) == [x \in (DOMAIN d) \ {k} |-> d[x]]

\* Mutant: a level is stored whatever its quantity.
ApplyLevel_StoreAll(state, level) ==
    [state EXCEPT ![SideOf(level)] = DictUpdate(@, level.price, level.quantity)]

\* One entry of a diff: upsert when quantity > 0, remove the price otherwise.
ApplyLevel(state, level) ==
    IF level.quantity > 0
    THEN [state EXCEPT ![SideOf(level)] = DictUpdate(@, level.price, level.quantity)]
    ELSE [state EXCEPT ![SideOf(level)] = DictRemove(@, level.price)]

RECURSIVE ApplyLevels(_, _)
ApplyLevels(state, entries) ==
    IF entries = <<>> THEN state
    ELSE ApplyLevels(ApplyLevel(state, Head(entries)), Tail(entries))

\* Mutant: no message is rejected.
IsStale_Never(state, msg) == FALSE

\* Mutant: the comparison is reversed.
IsStale_Reversed(state, msg) == msg.update_id > state.update_id

\* msg.updateId < state.updateId
IsStale(state, msg) == msg.update_id < state.update_id

applyDiff(state, msg) ==
    IF IsStale(state, msg) THEN state
    ELSE [ApplyLevels(state, msg.entries) EXCEPT !.update_id = msg.update_id]

RECURSIVE StoreLevels(_, _)
StoreLevels(state, entries) ==
    IF entries = <<>> THEN state
    ELSE StoreLevels([state EXCEPT ![SideOf(Head(entries))] =
                         DictUpdate(@, Head(entries).price, Head(entries).quantity)],
                     Tail(entries))

\* Mutant: the entries of the message are stored over the levels already there.
applySnapshot_Merge(state, msg) ==
    [StoreLevels(state, msg.entries) EXCEPT !.update_id = msg.update_id]

\* Both maps are replaced by the entries of the message, partitioned by side.
applySnapshot(state, msg) ==
    [StoreLevels(EmptyBook, msg.entries) EXCEPT !.update_id = msg.update_id]

BookApplyDiff ==
    /\ \E msg \in BookMessages :
         /\ msg.type = "diff"
         /\ book' = applyDiff(book, msg)
         /\ bookApplied' = msg
         /\ bookPrev' = book
    /\ UNCHANGED outsideBook

BookApplySnapshot ==
    /\ \E msg \in BookMessages :
         /\ msg.type = "snapshot"
         /\ book' = applySnapshot(book, msg)
         /\ bookApplied' = msg
         /\ bookPrev' = book
    /\ UNCHANGED outsideBook

----
(* NdaxExchange: trading rules *)

\* One record of the GetInstruments body; "MinimumQuantity" is absent from a
\* record that Decimal(str(instrument["MinimumQuantity"])) cannot read.
RuleRecord(base, quote, minQuantity) ==
    [Product1Symbol |-> base, Product2Symbol |-> quote, MinimumQuantity |-> minQuantity]

Absent == -1

\* Bodies the GetInstruments endpoint may answer with.
RulesBodies ==
    { <<RuleRecord("BTC", "CAD", 2), RuleRecord("LTC", "CAD", Absent),
        RuleRecord("ETH", "CAD", 2)>>,
      <<RuleRecord("BTC", "CAD", 2)>> }

\* Whether TradingRule(...) can be built from the record.
Parsable(record) == record.MinimumQuantity # Absent

\* Mutant: the first record that cannot be parsed ends the loop.
FormatTradingRules_StopAtBad(result, info) ==
    IF info = <<>> \/ ~Parsable(Head(info)) THEN result
    ELSE DictUpdate(result, PairKey(Head(info)), Head(info).MinimumQuantity)

\* _format_trading_rules: a record that cannot be parsed is logged and skipped.
RECURSIVE FormatTradingRules(_, _)
FormatTradingRules(result, info) ==
    IF info = <<>> THEN result
    ELSE FormatTradingRules(
             IF Parsable(Head(info))
             THEN DictUpdate(result, PairKey(Head(info)), Head(info).MinimumQuantity)
             ELSE result,
             Tail(info))

\* How the request of _update_trading_rules may end: _api_request raises on
\* every status other than 200 and on every transport or decoding error.
RulesRequestOutcomes == {"200", "non200", "error"}

RulesRequest(status, body) == [status |-> status, body |-> body]

NoRulesRequest == RulesRequest("none", <<>>)

\* Mutant: the rules are cleared although the request has failed.
RulesAfterRequest_ClearFirst(rules, status, body) ==
    IF status = "200" THEN FormatTradingRules(<<>>, body) ELSE <<>>

\* self._trading_rules after the await of _api_request: clear() and the
\* assignment run only when the request has returned.
RulesAfterRequest(rules, status, body) ==
    IF status = "200" THEN FormatTradingRules(<<>>, body) ELSE rules

RulesStart ==
    /\ rulesPc = "start"
    /\ rulesPc' = "request"
    /\ UNCHANGED <<tradingRules, rulesSleep, rulesOutcome, rulesLast,
                   orderCount, orders, orderEvents>>
    /\ UNCHANGED outsideTrade

\* The request of _update_trading_rules ends; then the loop sleeps 60 s, or
\* 0.5 s in its except branch.
RulesRequestDone ==
    /\ rulesPc = "request"
    /\ \E status \in RulesRequestOutcomes, body \in RulesBodies :
         /\ tradingRules' = RulesAfterRequest(tradingRules, status, body)
         /\ rulesLast' = RulesRequest(status, IF status = "200" THEN body ELSE <<>>)
         /\ rulesPc' = "sleep"
         /\ rulesSleep' = IF status = "200" THEN RulesIntervalMs ELSE RulesRetrySleepMs
    /\ UNCHANGED <<rulesOutcome, orderCount, orders, orderEvents>>
    /\ UNCHANGED outsideTrade

\* The pending sleep returns and the while loop starts its next iteration.
RulesSleepDone ==
    /\ rulesPc = "sleep"
    /\ rulesPc' = "request"
    /\ rulesSleep' = 0
    /\ UNCHANGED <<tradingRules, rulesOutcome, rulesLast, orderCount, orders,
                   orderEvents>>
    /\ UNCHANGED outsideTrade

\* except asyncio.CancelledError: raise
RulesCancel ==
    /\ rulesPc \in {"request", "sleep"}
    /\ rulesPc' = "done"
    /\ rulesOutcome' = "cancelled"
    /\ rulesSleep' = 0
    /\ UNCHANGED <<tradingRules, rulesLast, orderCount, orders, orderEvents>>
    /\ UNCHANGED outsideTrade

----
(* NdaxExchange: buy, sell and _create_order *)

TradeTypes == {"BUY", "SELL"}

\* supported_order_types(); MARKET is the default of buy and sell.
OrderTypes == {"MARKET", "LIMIT", "LIMIT_MAKER"}

\* Pairs an order may name: BTC-CAD, and one no GetInstruments body lists.
OrderPairs == {"BTC-CAD", "XRP-CAD"}

\* Quantized order amounts: one below and one above the MinimumQuantity of the
\* bodies.
OrderAmounts == {1, 3}

\* Mutant: every order type passes the test.
IsLimitType_Any(orderType) == TRUE

\* order_type.is_limit_type()
IsLimitType(orderType) == orderType \in {"LIMIT", "LIMIT_MAKER"}

CreatedEvent(tradeType) ==
    IF tradeType = "BUY" THEN "BuyOrderCreated" ELSE "SellOrderCreated"

\* buy() and sell(): a new order id, and _create_order scheduled as a task.
PlaceOrder ==
    /\ orderCount < MaxOrders
    /\ \E tradeType \in TradeTypes, orderType \in OrderTypes, pair \in OrderPairs,
          amount \in OrderAmounts :
         LET id == orderCount + 1
         IN  /\ orderCount' = id
             /\ orders' = [i \in 1..id |->
                              IF i = id
                              THEN [trade_type |-> tradeType, order_type |-> orderType,
                                    pair |-> pair, amount |-> amount,
                                    pc |-> "scheduled", outcome |-> "running"]
                              ELSE orders[i]]
             /\ orderEvents' = [i \in 1..id |-> IF i = id THEN <<>> ELSE orderEvents[i]]
    /\ UNCHANGED <<tradingRules, rulesPc, rulesSleep, rulesOutcome, rulesLast>>
    /\ UNCHANGED outsideTrade

\* The task ends: its position, how it ended, and the event it triggers last.
OrderEnds(id, outcome, events) ==
    /\ orders' = [orders EXCEPT ![id].pc = "done", ![id].outcome = outcome]
    /\ orderEvents' = [orderEvents EXCEPT ![id] = @ \o events]

\* _create_order runs up to the await of the send-order request: the order
\* type test and the trading rule lookup are outside the try block, the size
\* test is inside.
CreateOrderStart ==
    /\ \E id \in DOMAIN orders :
         LET o == orders[id]
         IN  /\ o.pc = "scheduled"
             /\ IF ~IsLimitType(o.order_type)
                THEN OrderEnds(id, "Exception", <<>>)
                ELSE IF o.pair \notin DOMAIN tradingRules
                THEN OrderEnds(id, "KeyError", <<>>)
                ELSE IF o.amount < tradingRules[o.pair]
                THEN OrderEnds(id, "failed", <<"OrderFailure">>)
                ELSE /\ orders' = [orders EXCEPT ![id].pc = "sending"]
                     /\ UNCHANGED orderEvents
    /\ UNCHANGED <<tradingRules, rulesPc, rulesSleep, rulesOutcome, rulesLast,
                   orderCount>>
    /\ UNCHANGED outsideTrade

\* How the lines after the await may go: the request raises; the body has no
\* "OrderId" or self._in_flight_orders cannot be read; or the event is triggered.
SendOrderOutcomes == {"ok", "error", "badResult"}

SendOrderDone ==
    /\ \E id \in DOMAIN orders, result \in SendOrderOutcomes :
         /\ orders[id].pc = "sending"
         /\ IF result = "ok"
            THEN OrderEnds(id, "created", <<CreatedEvent(orders[id].trade_type)>>)
            ELSE OrderEnds(id, "failed", <<"OrderFailure">>)
    /\ UNCHANGED <<tradingRules, rulesPc, rulesSleep, rulesOutcome, rulesLast,
                   orderCount>>
    /\ UNCHANGED outsideTrade

\* The task is cancelled while it awaits the request.
CreateOrderCancel ==
    /\ \E id \in DOMAIN orders :
         /\ orders[id].pc = "sending"
         /\ OrderEnds(id, "cancelled", <<>>)
    /\ UNCHANGED <<tradingRules, rulesPc, rulesSleep, rulesOutcome, rulesLast,
                   orderCount>>
    /\ UNCHANGED outsideTrade

----
(* NdaxExchange: balances, tick and _status_polling_loop *)

\* One record of the GetAccountPositions body.
Position(asset, amount, hold) == [ProductSymbol |-> asset, Amount |-> amount, Hold |-> hold]

\* Bodies the GetAccountPositions endpoint may answer with.
PositionBodies ==
    { <<Position("BTC", 5, 2), Position("CAD", 5, 2)>>,
      <<Position("BTC", 5, 2)>> }

\* Account position events of the user stream: (product_symbol, amount, on_hold).
PositionEvents == {Position("ETH", 1, 0), Position("CAD", 1, 0)}

AssetsOf(body) == {body[i].ProductSymbol : i \in DOMAIN body}

\* The for loop over account_positions, on one of the two maps.
RECURSIVE StoreTotals(_, _)
StoreTotals(balances, body) ==
    IF body = <<>> THEN balances
    ELSE StoreTotals(DictUpdate(balances, Head(body).ProductSymbol, Head(body).Amount),
                     Tail(body))

RECURSIVE StoreAvailable(_, _)
StoreAvailable(balances, body) ==
    IF body = <<>> THEN balances
    ELSE StoreAvailable(DictUpdate(balances, Head(body).ProductSymbol,
                                   Head(body).Amount - Head(body).Hold),
                        Tail(body))

\* asset_names_to_remove = local_asset_names.difference(remote_asset_names)
AssetNamesToRemove(current, local, remote) == local \ remote

\* del balances[asset_name] for each name to remove
Without(balances, names) == [a \in (DOMAIN balances) \ names |-> balances[a]]

\* poll_interval: short when the user stream has been silent for 60 s.
PollIntervals == {ShortPollInterval, LongPollInterval}

\* How far the timestamp of a tick may be from the one before.
TickSteps == {1, ShortPollInterval}

\* current_tick > last_tick
CrossesBoundary(last, timestamp, interval) ==
    (timestamp \div interval) > (last \div interval)

\* tick(timestamp)
ExchangeTick ==
    /\ statusTicks < MaxStatusTicks
    /\ statusTicks' = statusTicks + 1
    /\ \E d \in TickSteps, interval \in PollIntervals :
         LET timestamp == lastTimestamp + d
         IN  /\ lastTimestamp' = timestamp
             /\ IF CrossesBoundary(lastTimestamp, timestamp, interval)
                THEN /\ pollNotifierSet' = TRUE
                     /\ pollDue' = TRUE
                ELSE UNCHANGED <<pollNotifierSet, pollDue>>
    /\ UNCHANGED <<accountBalances, accountAvailableBalances, statusPc, statusOutcome,
                   localAssetNames, balancesLast>>
    /\ UNCHANGED outsideStatus

\* process_account_position_event
AccountPositionEvent ==
    /\ \E event \in PositionEvents :
         /\ accountBalances' =
                DictUpdate(accountBalances, event.ProductSymbol, event.Amount)
         /\ accountAvailableBalances' =
                DictUpdate(accountAvailableBalances, event.ProductSymbol,
                           event.Amount - event.Hold)
    /\ UNCHANGED <<statusPc, statusOutcome, pollNotifierSet, lastTimestamp,
                   statusTicks, localAssetNames, balancesLast, pollDue>>
    /\ UNCHANGED outsideStatus

\* The top of the while loop: a new, unset Event replaces the notifier and
\* the loop waits for it.
StatusWaitAgain ==
    /\ statusPc' = "wait"
    /\ pollNotifierSet' = FALSE

StatusStart ==
    /\ statusPc = "start"
    /\ StatusWaitAgain
    /\ UNCHANGED <<accountBalances, accountAvailableBalances, statusOutcome,
                   lastTimestamp, statusTicks, localAssetNames, balancesLast, pollDue>>
    /\ UNCHANGED outsideStatus

\* wait() returns; _update_balances runs up to the await of its request.
StatusWake ==
    /\ statusPc = "wait"
    /\ pollNotifierSet
    /\ statusPc' = "update"
    /\ localAssetNames' = DOMAIN accountBalances
    /\ pollDue' = FALSE
    /\ UNCHANGED <<accountBalances, accountAvailableBalances, statusOutcome,
                   pollNotifierSet, lastTimestamp, statusTicks, balancesLast>>
    /\ UNCHANGED outsideStatus

\* The GetAccountPositions request answers and the rest of _update_balances runs.
StatusUpdateDone ==
    /\ statusPc = "update"
    /\ \E body \in PositionBodies :
         LET remove == AssetNamesToRemove(DOMAIN accountBalances, localAssetNames,
                                          AssetsOf(body))
         IN  /\ accountBalances' = Without(StoreTotals(accountBalances, body), remove)
             /\ accountAvailableBalances' =
                    Without(StoreAvailable(accountAvailableBalances, body), remove)
             /\ balancesLast' = AssetsOf(body)
    /\ StatusWaitAgain
    /\ localAssetNames' = {}
    /\ UNCHANGED <<statusOutcome, lastTimestamp, statusTicks, pollDue>>
    /\ UNCHANGED outsideStatus

\* The request raises: except Exception, log, sleep 0.5 s.
StatusUpdateFail ==
    /\ statusPc = "update"
    /\ statusPc' = "errorSleep"
    /\ localAssetNames' = {}
    /\ UNCHANGED <<accountBalances, accountAvailableBalances, statusOutcome,
                   pollNotifierSet, lastTimestamp, statusTicks, balancesLast, pollDue>>
    /\ UNCHANGED outsideStatus

StatusErrorSleepDone ==
    /\ statusPc = "errorSleep"
    /\ StatusWaitAgain
    /\ UNCHANGED <<accountBalances, accountAvailableBalances, statusOutcome,
                   lastTimestamp, statusTicks, localAssetNames, balancesLast, pollDue>>
    /\ UNCHANGED outsideStatus

\* except asyncio.CancelledError: raise
StatusCancel ==
    /\ statusPc \in {"wait", "update", "errorSleep"}
    /\ statusPc' = "done"
    /\ statusOutcome' = "cancelled"
    /\ localAssetNames' = {}
    /\ UNCHANGED <<accountBalances, accountAvailableBalances, pollNotifierSet,
                   lastTimestamp, statusTicks, balancesLast, pollDue>>
    /\ UNCHANGED outsideStatus

----
(* The two loops feeding one consumer: the exchange holds one bid level, the *)
(* diff loop reports its changes, the snapshot loop fetches it, and the       *)
(* consumer applies the queue to the order book state in arrival order.       *)

SyncPrice == EntryA.price

\* Quantities the exchange may change the level to (0: the level is removed).
ExchangeQuantities == {0, 2, 3}

\* The entries that describe the level as the exchange holds it at time t.
ExchangeLevel(t, quantity) == Entry(TimestampMs(t), "bid", SyncPrice, quantity)

\* The body of a GetL2Snapshot response generated at time t.
ExchangeSnapshot(t, quantity) ==
    IF quantity > 0 THEN <<ExchangeLevel(t, quantity)>> ELSE <<>>

\* The message the diff loop puts for a Level2UpdateEvent frame.
QueuedDiff(batch) == BookMessage("diff", MaxActionDateTime(batch), batch)

\* The message the snapshot loop puts for a body received at local time t.
QueuedSnapshot(body, t) == BookMessage("snapshot", TimestampMs(t), body)

SyncTick ==
    /\ syncNow < MaxSyncTime
    /\ syncNow' = syncNow + 1
    /\ UNCHANGED <<exchangeQty, exchangeUpdates, wsPipe, restPc, restBody, syncQueue,
                   snapshotsApplied>>
    /\ UNCHANGED <<bookVars, outsideSync>>

\* The exchange changes the level and sends the Level2UpdateEvent for it.
ExchangeUpdate ==
    /\ exchangeUpdates < MaxExchangeUpdates
    /\ exchangeUpdates' = exchangeUpdates + 1
    /\ \E q \in ExchangeQuantities \ {exchangeQty} :
         /\ exchangeQty' = q
         /\ wsPipe' = Append(wsPipe, <<ExchangeLevel(syncNow, q)>>)
    /\ UNCHANGED <<syncNow, restPc, restBody, syncQueue, snapshotsApplied>>
    /\ UNCHANGED <<bookVars, outsideSync>>

\* The diff loop receives the oldest frame in flight and puts its message.
SyncDiffReceived ==
    /\ wsPipe # <<>>
    /\ syncQueue' = Append(syncQueue, QueuedDiff(Head(wsPipe)))
    /\ wsPipe' = Tail(wsPipe)
    /\ UNCHANGED <<syncNow, exchangeQty, exchangeUpdates, restPc, restBody,
                   snapshotsApplied>>
    /\ UNCHANGED <<bookVars, outsideSync>>

\* The exchange answers the GetL2Snapshot request of the snapshot loop.
SyncSnapshotServed ==
    /\ restPc = "idle"
    /\ restPc' = "inflight"
    /\ restBody' = ExchangeSnapshot(syncNow, exchangeQty)
    /\ UNCHANGED <<syncNow, exchangeQty, exchangeUpdates, wsPipe, syncQueue,
                   snapshotsApplied>>
    /\ UNCHANGED <<bookVars, outsideSync>>

\* The snapshot loop receives the response, stamps it with the local time and
\* puts its message.
SyncSnapshotReceived ==
    /\ restPc = "inflight"
    /\ restPc' = "done"
    /\ syncQueue' = Append(syncQueue, QueuedSnapshot(restBody, syncNow))
    /\ restBody' = <<>>
    /\ UNCHANGED <<syncNow, exchangeQty, exchangeUpdates, wsPipe, snapshotsApplied>>
    /\ UNCHANGED <<bookVars, outsideSync>>

\* The consumer takes the oldest message of the queue and applies it.
SyncConsume ==
    /\ syncQueue # <<>>
    /\ LET msg == Head(syncQueue)
       IN  /\ book' = IF msg.type = "snapshot" THEN applySnapshot(book, msg)
                       ELSE applyDiff(book, msg)
           /\ bookApplied' = msg
           /\ bookPrev' = book
           /\ snapshotsApplied' = snapshotsApplied
                                    + (IF msg.type = "snapshot" THEN 1 ELSE 0)
    /\ syncQueue' = Tail(syncQueue)
    /\ UNCHANGED <<syncNow, exchangeQty, exchangeUpdates, wsPipe, restPc, restBody>>
    /\ UNCHANGED outsideSync

----
(* Specifications *)

Init ==
    /\ now = 0
    /\ ticks = 0
    /\ tradingPairIdMap = <<>>
    /\ everRefreshed = FALSE
    /\ lastGood = <<>>
    /\ lastRefresh = "none"
    /\ lastInstruments = <<>>
    /\ lastRefreshRaised = FALSE
    /\ refreshStart = [t \in Tasks |-> <<>>]
    /\ refreshHadGood = [t \in Tasks |-> FALSE]
    /\ snapPc = "start"
    /\ snapIdx = 1
    /\ snapWake = 0
    /\ snapOutcome = "running"
    /\ snapCycle = 1
    /\ snapLog = <<>>
    /\ snapCycleEndAt = -1
    /\ snapReqId = NoneId
    /\ snapLast = NoAttempt
    /\ pricePc = "idle"
    /\ priceIdx = 1
    /\ priceCalls = 0
    /\ priceOutcome = "none"
    /\ priceResults = {}
    /\ priceListed = {}
    /\ diffPc = "start"
    /\ diffOutcome = "running"
    /\ diffPending = "none"
    /\ ws = 0
    /\ connCount = 0
    /\ connOpen = {}
    /\ subsSent = <<>>
    /\ diffWake = 0
    /\ diffIterEnd = "none"
    /\ diffIterEndAt = 0
    /\ diffPrevEnd = "none"
    /\ diffCancelAt = "none"
    /\ lastFrame = NoFrame
    /\ output = <<>>
    /\ book = EmptyBook
    /\ bookApplied = NoMessage
    /\ bookPrev = EmptyBook
    /\ tradingRules = <<>>
    /\ rulesPc = "start"
    /\ rulesSleep = 0
    /\ rulesOutcome = "running"
    /\ rulesLast = NoRulesRequest
    /\ orderCount = 0
    /\ orders = <<>>
    /\ orderEvents = <<>>
    /\ accountBalances = <<>>
    /\ accountAvailableBalances = <<>>
    /\ statusPc = "start"
    /\ statusOutcome = "running"
    /\ pollNotifierSet = FALSE
    /\ lastTimestamp = 0
    /\ statusTicks = 0
    /\ localAssetNames = {}
    /\ balancesLast = {}
    /\ pollDue = FALSE
    /\ syncNow = 1
    /\ exchangeQty = 2
    /\ exchangeUpdates = 0
    /\ wsPipe = <<>>
    /\ restPc = "idle"
    /\ restBody = <<>>
    /\ syncQueue = <<>>
    /\ snapshotsApplied = 0

ClockStep ==
    /\ Tick(RestClockSteps)
    /\ UNCHANGED <<dirVars, snapVars, priceVars, diffVars, output>>
    /\ UNCHANGED outsideSrc

\* Time passes until the pending sleep of the snapshot loop is over.
SnapSleepElapses ==
    /\ snapPc \in {"pairSleep", "hourSleep"}
    /\ now < snapWake
    /\ ticks < MaxTicks
    /\ now' = snapWake
    /\ ticks' = ticks + 1
    /\ UNCHANGED <<dirVars, snapVars, priceVars, diffVars, output>>
    /\ UNCHANGED outsideSrc

DiffClockStep ==
    /\ Tick(DiffClockSteps)
    /\ UNCHANGED <<dirVars, snapVars, priceVars, diffVars, output>>
    /\ UNCHANGED outsideSrc

\* The snapshot loop alone.
NextSnap ==
    \/ ClockStep
    \/ SnapStart
    \/ SnapRefreshDone
    \/ SnapOrderBookDone
    \/ SnapPairSleepDone
    \/ SnapHourSleepDone
    \/ SnapCancel

SpecSnap == Init /\ [][NextSnap]_vars

\* The snapshot loop and a concurrent get_last_traded_prices call, both
\* refreshing the shared instrument directory.
NextDir ==
    \/ SnapSleepElapses
    \/ SnapStart
    \/ SnapRefreshDone
    \/ SnapOrderBookDone
    \/ SnapPairSleepDone
    \/ SnapHourSleepDone
    \/ SnapCancel
    \/ PriceStart
    \/ PriceRefreshDone
    \/ PriceLevel1Done

SpecDir == Init /\ [][NextDir]_vars

\* The diff loop alone.
NextDiff ==
    \/ DiffClockStep
    \/ DiffStart
    \/ DiffConnectOk
    \/ DiffConnectFail
    \/ DiffSubscribeOk
    \/ DiffSubscribeFail
    \/ DiffRecvFrame
    \/ DiffRecvError
    \/ DiffEndOfStream
    \/ DiffBackoffDone
    \/ DiffCleanupDone
    \/ DiffCancel

SpecDiff == Init /\ [][NextDiff]_vars

\* The order book state and the messages applied to it.
NextBook ==
    \/ BookApplyDiff
    \/ BookApplySnapshot

SpecBook == Init /\ [][NextBook]_vars

\* The trading rules polling loop and the orders placed meanwhile.
NextTrade ==
    \/ RulesStart
    \/ RulesRequestDone
    \/ RulesSleepDone
    \/ RulesCancel
    \/ PlaceOrder
    \/ CreateOrderStart
    \/ SendOrderDone
    \/ CreateOrderCancel

SpecTrade == Init /\ [][NextTrade]_vars

\* The status polling loop, the clock's tick() and the account events.
NextStatus ==
    \/ ExchangeTick
    \/ AccountPositionEvent
    \/ StatusStart
    \/ StatusWake
    \/ StatusUpdateDone
    \/ StatusUpdateFail
    \/ StatusErrorSleepDone
    \/ StatusCancel

SpecStatus == Init /\ [][NextStatus]_vars

\* The exchange, the two loops' messages for one level, and the consumer.
NextSync ==
    \/ SyncTick
    \/ ExchangeUpdate
    \/ SyncDiffReceived
    \/ SyncSnapshotServed
    \/ SyncSnapshotReceived
    \/ SyncConsume

SpecSync == Init /\ [][NextSync]_vars

\* Every task together.
Next == NextSnap \/ NextDir \/ NextDiff \/ NextBook \/ NextTrade \/ NextStatus \/ NextSync

Spec == Init /\ [][Next]_vars

----
(* Claims about the diff loop, checked under SpecDiff *)

AllSubscriptions ==
    [i \in 1..Len(TradingPairs) |-> SubscribeRequest(TradingPairs[i])]

\* C1: neither listening loop ever exits for a reason other than explicit
\* cancellation: as long as no cancellation has been delivered, every exception
\* of an iteration (a failed first connection attempt included) is caught and
\* the loop goes on.
C1_ExitOnlyOnCancellation ==
    /\ (diffCancelAt = "none" => diffPc # "done")
    /\ (snapPc = "done" => snapOutcome = "cancelled")

\* C2: a cancellation delivered at any suspension point of a loop makes the
\* loop exit with that cancellation as its outcome: no further iteration is
\* started and no other error replaces it.
C2_CancellationPropagates ==
    /\ (diffCancelAt # "none" =>
            /\ diffPc \in {"cleanup", "done"}
            /\ (diffPc = "done" => diffOutcome = "cancelled"))
    /\ (snapPc = "done" => snapOutcome = "cancelled")

\* C3: after a connection-level failure of the diff loop (while connecting,
\* subscribing or reading) the loop waits 30 s and then reconnects, and it
\* sends one subscription request per tracked pair, in tracked order, before
\* it processes a frame of the new connection.
C3_ReconnectAfterFailure ==
    /\ (diffIterEnd = "error" /\ diffCancelAt = "none" =>
            /\ diffPc \in {"backoff", "cleanup"}
            /\ (diffPc = "cleanup" => now >= diffIterEndAt + DiffRetrySleep))
    /\ (diffPc = "recv" => subsSent = AllSubscriptions)

\* C4: when the frame sequence ends because the connection closed, the loop
\* does not terminate and waits 30 s before it reconnects: at least 30 s lie
\* between the end of one connection attempt and the start of the next.
C4_WaitBeforeEveryReconnect ==
    [][ /\ (diffIterEnd' = "eos" /\ diffCancelAt' = "none" => diffPc' # "done")
        /\ (diffPc = "cleanup" /\ diffPc' = "connect" =>
                now >= diffIterEndAt + DiffRetrySleep) ]_vars

\* C5: every connection the diff loop has opened is closed before the loop
\* opens another one or exits, and the cleanup step does not fail when the
\* loop has not opened any connection so far.
C5_ConnectionsClosedAndCleanupSafe ==
    /\ (diffPc \in {"connect", "done"} => connOpen = {})
    /\ (connCount = 0 => diffOutcome # "UnboundLocalError")

----
(* Claims about the snapshot loop, checked under SpecSnap *)

CycleLog(c) == SelectSeq(snapLog, LAMBDA e : e.cycle = c)

RestMessages == SelectSeq(output, LAMBDA m : m.source = "rest")
OkLog == SelectSeq(snapLog, LAMBDA e : e.ok)

\* C6: in a snapshot cycle a failure on one pair is followed by a 5 s wait and
\* then by the next tracked pair: when the cycle is over every tracked pair has
\* been attempted, whichever of them failed, and the messages on the queue are
\* those of the pairs whose own fetch succeeded.
C6_FailureDoesNotAbortCycle ==
    /\ [](snapPc = "hourSleep" =>
            /\ Len(CycleLog(snapCycle)) = Len(TradingPairs)
            /\ Len(RestMessages) = Len(OkLog))
    /\ [][ /\ (Len(snapLog') = Len(snapLog) + 1 /\ ~snapLog'[Len(snapLog')].ok =>
                  /\ snapPc' = "pairSleep"
                  /\ snapWake' = now + SnapshotRetrySleep
                  /\ snapIdx' = snapIdx)
           /\ (snapPc = "pairSleep" /\ snapPc' \notin {"pairSleep", "done"} =>
                  /\ now >= snapWake
                  /\ IF snapIdx < Len(TradingPairs)
                     THEN snapPc' = "refresh" /\ snapIdx' = snapIdx + 1
                     ELSE snapPc' = "hourSleep") ]_vars

C6_Witness ==
    /\ snapPc = "hourSleep"
    /\ Len(snapLog) = 2
    /\ ~snapLog[1].ok
    /\ snapLog[2].ok
    /\ Len(output) = 1
    /\ output[1].trading_pair = TradingPairs[2]

\* C7: in every snapshot cycle each tracked pair is attempted exactly once, in
\* tracked order, and the queue holds exactly one Snapshot message for every
\* attempt that succeeded and none for an attempt that failed.
C7_OneAttemptOneMessage ==
    /\ \A c \in 1..snapCycle :
          /\ Len(CycleLog(c)) <= Len(TradingPairs)
          /\ \A i \in DOMAIN CycleLog(c) : CycleLog(c)[i].pair = TradingPairs[i]
          /\ (c < snapCycle => Len(CycleLog(c)) = Len(TradingPairs))
    /\ \A i \in DOMAIN snapLog : snapLog[i].cycle \in 1..snapCycle
    /\ \A i, j \in DOMAIN snapLog : i <= j => snapLog[i].cycle <= snapLog[j].cycle
    /\ Len(RestMessages) = Len(OkLog)
    /\ \A i \in DOMAIN RestMessages :
          /\ RestMessages[i].type = "snapshot"
          /\ RestMessages[i].trading_pair = OkLog[i].pair

C7_Witness ==
    /\ snapCycle = 2
    /\ Len(snapLog) = 2 * Len(TradingPairs)
    /\ \E i, j \in DOMAIN snapLog : snapLog[i].ok /\ ~snapLog[j].ok
    /\ Len(output) >= 2

\* C8: once the snapshot loop has gone through the tracked pairs of a cycle it
\* issues no snapshot fetch before the next top-of-hour boundary has passed.
C8_NoFetchBeforeNextHour ==
    /\ (snapPc = "hourSleep" => snapCycleEndAt >= 0 /\ snapWake > snapCycleEndAt)
    /\ (snapCycle >= 2 /\ snapPc \in {"refresh", "orderbook", "pairSleep"} =>
            now \div Hour > snapCycleEndAt \div Hour)

C8_Witness ==
    /\ snapCycle = 2
    /\ snapPc = "orderbook"
    /\ snapCycleEndAt >= 0

----
(* Claims about the instrument directory, checked under SpecDir *)

RefreshPending(t) == IF t = "snap" THEN snapPc = "refresh" ELSE pricePc = "refresh"

\* C9: a refresh that fails after an earlier refresh had succeeded leaves the
\* cached mapping exactly as it was when the failed refresh began.
C9_FailedRefreshKeepsMapping ==
    [][ \A t \in Tasks :
          ( /\ RefreshPending(t)
            /\ ~RefreshPending(t)'
            /\ snapPc' # "done"
            /\ lastRefresh' # "200"
            /\ refreshHadGood[t] )
          => tradingPairIdMap' = refreshStart[t] ]_vars

\* C10: while a refresh is in progress, a task suspended in a call that reads
\* the cached mapping finds the complete mapping of the last successful
\* refresh there, never an emptied or partly filled one.
C10_ReadersSeeCompleteMapping ==
    ( /\ everRefreshed
      /\ \/ RefreshPending("snap") /\ pricePc = "level1"
         \/ RefreshPending("price") /\ snapPc = "orderbook" )
    => tradingPairIdMap = lastGood

----
(* Claims about the contents of the directory and about failed requests *)

\* The pair the snapshot loop is processing.
SnapPair == TradingPairs[snapIdx]

\* The mapping a list of instruments stands for: one entry per listed pair,
\* with the id of its last listing.
ListedPairs(instruments) == {PairKey(instruments[i]) : i \in DOMAIN instruments}

LastListing(instruments, key) ==
    CHOOSE i \in DOMAIN instruments :
        /\ PairKey(instruments[i]) = key
        /\ \A j \in DOMAIN instruments : j > i => PairKey(instruments[j]) # key

ListedMapping(instruments) ==
    [key \in ListedPairs(instruments) |->
        instruments[LastListing(instruments, key)].InstrumentId]

\* C11: after a refresh whose request returned 200 with a list of instruments,
\* the cached mapping holds exactly the entries of that list; a pair of the list
\* is fetched with its listed id, and for a pair that is not in the list the
\* lookup raises KeyError and no order book request is sent.
C11_MappingIsExactlyTheList ==
    ( snapPc \in {"orderbook", "pairSleep"} /\ snapLast.refresh = "200" )
    => LET listed == ListedMapping(lastInstruments)
       IN  /\ tradingPairIdMap = listed
           /\ SnapPair \in DOMAIN listed
                => /\ snapLast.error # "KeyError"
                   /\ snapPc = "orderbook" => snapReqId = listed[SnapPair]
           /\ SnapPair \notin DOMAIN listed
                => /\ snapPc = "pairSleep"
                   /\ snapLast = Attempt("200", "none", "KeyError")
                   /\ snapReqId = NoneId

\* A pair that an earlier refresh had resolved (its snapshot is on the queue)
\* is missing from the list of the last refresh, and its lookup has failed.
C11_Witness ==
    /\ snapPc = "pairSleep"
    /\ snapLast = Attempt("200", "none", "KeyError")
    /\ \E i \in DOMAIN output : output[i].trading_pair = SnapPair
    /\ SnapPair \notin DOMAIN tradingPairIdMap
    /\ tradingPairIdMap # <<>>

\* C12: a refresh whose request returned another status than 200 raises to its
\* caller.
C12_Non200RefreshRaises ==
    lastRefresh = "non200" => lastRefreshRaised

----
(* Claims about the requests and the messages of the two loops *)

\* C13: when a GetL2Snapshot request or a subscription request is sent for a
\* tracked pair, the pair has an entry in the cached mapping.
C13_RequestsOnlyForResolvedPairs ==
    [][ /\ Len(subsSent') > Len(subsSent)
             => subsSent'[Len(subsSent')].pair \in DOMAIN tradingPairIdMap
        /\ (snapPc # "orderbook" /\ snapPc' = "orderbook")
             => TradingPairs[snapIdx'] \in DOMAIN tradingPairIdMap' ]_vars

\* The diff loop has run its body on the frame lastFrame' in this step.
FrameProcessed == diffPc = "recv" /\ lastFrame' # lastFrame /\ lastFrame' # NoFrame

\* The diff loop has put a message in this step.
DiffLoopPut == diffPc = "recv" /\ Len(output') = Len(output) + 1

\* C15: a well-formed frame whose event name is neither SubscribeLevel2 nor
\* Level2UpdateEvent is dropped: nothing is put, nothing is raised, the
\* connection stays open and the loop stays at the same point with the state it
\* had before the frame.
C15_OtherEventsAreDropped ==
    [][ ( /\ FrameProcessed
          /\ lastFrame'.n \notin {"SubscribeLevel2", "Level2UpdateEvent", "malformed"} )
        => /\ output' = output
           /\ diffPc' = "recv"
           /\ ws' \in connOpen'
           /\ UNCHANGED <<diffOutcome, diffPending, ws, connCount, connOpen,
                          subsSent, diffWake, diffIterEnd, diffIterEndAt,
                          diffPrevEnd, diffCancelAt>>
           /\ UNCHANGED <<clockVars, dirVars, snapVars, priceVars>> ]_vars

\* A frame of another event was the last one received on a connection that is
\* still read from, after a message had been put.
C15_Witness ==
    /\ lastFrame.n = "Ping"
    /\ diffPc = "recv"
    /\ ws \in connOpen
    /\ Len(output) = 1

\* C16: the kind of a message of the diff loop follows from the event name of
\* its frame alone: SubscribeLevel2 gives a snapshot, Level2UpdateEvent a diff.
C16_KindFollowsEventName ==
    [][ DiffLoopPut
        => LET m == output'[Len(output')]
           IN  /\ lastFrame'.n \in {"SubscribeLevel2", "Level2UpdateEvent"}
               /\ lastFrame'.n = "SubscribeLevel2" => m.type = "snapshot"
               /\ lastFrame'.n = "Level2UpdateEvent" => m.type = "diff" ]_vars

\* The same batch has been put once as a snapshot and once as a diff.
C16_Witness ==
    \E i, j \in DOMAIN output :
        /\ output[i].source = "ws" /\ output[i].type = "snapshot"
        /\ output[j].source = "ws" /\ output[j].type = "diff"
        /\ output[i].data = output[j].data

\* C17: the update id of a message of the diff loop is the largest
\* actionDateTime among the entries of its frame.
C17_UpdateIdIsMaxTimestamp ==
    [][ DiffLoopPut
        => LET m == output'[Len(output')]
               batch == lastFrame'.o
           IN  /\ m.data = batch
               /\ \E i \in DOMAIN batch : batch[i].actionDateTime = m.update_id
               /\ \A i \in DOMAIN batch : batch[i].actionDateTime <= m.update_id ]_vars

\* A message whose batch does not end with its newest entry is on the queue.
C17_Witness ==
    \E i \in DOMAIN output :
        /\ output[i].source = "ws"
        /\ Len(output[i].data) > 1
        /\ output[i].data[Len(output[i].data)].actionDateTime < output[i].update_id

\* C18: every message on the queue names its trading pair and carries the
\* InstrumentId the pair resolves to.
C18_MessagesCarryPairAndId ==
    \A i \in DOMAIN output :
        /\ \E k \in DOMAIN TradingPairs : output[i].trading_pair = TradingPairs[k]
        /\ output[i].instrument_id # NoneId

----
(* Claims about the order book state *)

\* C19: applying a diff whose update id is less than the update id of the book
\* changes neither of the two price maps nor the update id.
C19_StaleDiffChangesNothing ==
    [][ ( /\ bookApplied'.type = "diff"
          /\ bookApplied'.update_id < book.update_id )
        => /\ book'.bids = book.bids
           /\ book'.asks = book.asks
           /\ book'.update_id = book.update_id ]_vars

\* A stale diff was handed to a book that its entries would have changed.
C19_Witness ==
    /\ bookApplied.type = "diff"
    /\ bookApplied.update_id < book.update_id
    /\ book.bids # <<>>
    /\ ApplyLevels(book, bookApplied.entries) # book

Sides == {"bids", "asks"}

NoEmptyLevel(state) ==
    \A side \in Sides : \A p \in DOMAIN state[side] : state[side][p] > 0

\* The entries of a batch that are the last ones for their side and price.
LastWord(entries) ==
    { i \in DOMAIN entries :
        \A j \in DOMAIN entries :
            (j > i) => ( entries[j].side # entries[i].side
                         \/ entries[j].price # entries[i].price ) }

\* C20: a diff with a larger update id, applied to a book without a level of
\* quantity <= 0, gives a book without such a level: each entry of quantity <= 0
\* has removed its price from its side, each entry of quantity > 0 has set the
\* quantity at its price, and the other levels are as they were.
C20_DiffsKeepNoEmptyLevel ==
    [][ ( /\ bookApplied'.type = "diff"
          /\ bookApplied'.update_id > book.update_id
          /\ NoEmptyLevel(book) )
        => LET entries == bookApplied'.entries
           IN  /\ NoEmptyLevel(book')
               /\ book'.update_id = bookApplied'.update_id
               /\ \A i \in LastWord(entries) :
                     LET e == entries[i]
                         side == IF e.side = "bid" THEN "bids" ELSE "asks"
                     IN  IF e.quantity > 0
                         THEN /\ e.price \in DOMAIN book'[side]
                              /\ book'[side][e.price] = e.quantity
                         ELSE e.price \notin DOMAIN book'[side]
               /\ \A side \in Sides :
                     \A p \in (DOMAIN book[side]) \cup (DOMAIN book'[side]) :
                        ( \A i \in DOMAIN entries :
                             entries[i].price # p
                             \/ (IF entries[i].side = "bid" THEN "bids" ELSE "asks")
                                  # side )
                        => /\ p \in DOMAIN book[side]
                           /\ p \in DOMAIN book'[side]
                           /\ book'[side][p] = book[side][p] ]_vars

\* A diff with an entry of quantity 0 and an entry of quantity > 0 was applied
\* to a book that keeps a level the diff did not name.
C20_Witness ==
    /\ bookApplied = BookMessage("diff", book.update_id,
                                 <<Level("bid", 100, 0), Level("bid", 99, 4)>>)
    /\ book.update_id > 1
    /\ book.bids = [p \in {99} |-> 4]
    /\ book.asks = [p \in {101} |-> 3]

\* The prices the entries of a batch name on one side of the book.
PricesOf(entries, side) ==
    {entries[i].price : i \in {j \in DOMAIN entries : SideOf(entries[j]) = side}}

\* C21: after a snapshot has been applied, the two price maps hold exactly the
\* entries of the snapshot, split by side, and the update id is that of the
\* snapshot, whatever the book held before; applying the same snapshot again
\* gives the same book.
C21_SnapshotReplacesState ==
    bookApplied.type = "snapshot"
    => LET entries == bookApplied.entries
       IN  /\ book.update_id = bookApplied.update_id
           /\ \A side \in Sides : DOMAIN book[side] = PricesOf(entries, side)
           /\ \A i \in LastWord(entries) :
                 book[SideOf(entries[i])][entries[i].price] = entries[i].quantity
           /\ applySnapshot(book, bookApplied) = book

\* The snapshot of scenario 1 has replaced a book that had a larger update id
\* and a level the snapshot does not name.
C21_Witness ==
    /\ bookApplied.type = "snapshot"
    /\ bookApplied.entries = <<Level("bid", 100, 2), Level("ask", 101, 3)>>
    /\ bookPrev.update_id > bookApplied.update_id
    /\ 99 \in DOMAIN bookPrev.bids
    /\ book.bids = [p \in {100} |-> 2]
    /\ book.asks = [p \in {101} |-> 3]

\* C22: the update id of the book never decreases when a message, snapshot or
\* diff, is applied.
C22_UpdateIdNeverDecreases ==
    book.update_id >= bookPrev.update_id

\* C22, amended: a diff never lowers the update id of the book (a stale diff is
\* rejected), while a snapshot sets the update id to its own, larger or smaller.
C22_OnlyDiffsKeepUpdateIdMonotone ==
    /\ bookApplied.type = "diff" => book.update_id >= bookPrev.update_id
    /\ bookApplied.type = "snapshot" => book.update_id = bookApplied.update_id

\* A stale diff was rejected by a book whose update id had been lowered by a
\* snapshot before.
C22_Witness ==
    /\ bookApplied.type = "diff"
    /\ bookApplied.update_id < book.update_id
    /\ book.update_id < MaxUpdateId
    /\ book = bookPrev

----
(* Claims about the order of requests and lookups *)

\* C24: the GetL2Snapshot request of a fetch is sent only when the GetInstruments
\* request of the same fetch has returned, and it carries the id that the list
\* of that response gives to the pair.
C24_RefreshBeforeFetch ==
    [][ (snapPc # "orderbook" /\ snapPc' = "orderbook")
        => /\ RefreshPending("snap")
           /\ lastRefresh' = "200"
           /\ SnapPair' \in ListedPairs(lastInstruments')
           /\ snapReqId' = ListedMapping(lastInstruments')[SnapPair'] ]_vars

\* In its second cycle the loop has sent the request for BTC-CAD after a
\* refresh that no longer lists ETH-CAD, while a price query is refreshing.
C24_Witness ==
    /\ snapPc = "orderbook"
    /\ snapCycle = 2
    /\ snapReqId = 1
    /\ ListedPairs(lastInstruments) = {"BTC-CAD"}
    /\ pricePc = "refresh"

\* C25: on a connection every frame of one of the two order book events puts
\* exactly one message, built from that frame, at the end of the queue, and
\* leaves the connection open and the loop reading from it.
C25_RelevantFrameYieldsOneMessage ==
    [][ ( /\ FrameProcessed
          /\ lastFrame'.n \in {"SubscribeLevel2", "Level2UpdateEvent"} )
        => /\ Len(output') = Len(output) + 1
           /\ SubSeq(output', 1, Len(output)) = output
           /\ output'[Len(output')].data = lastFrame'.o
           /\ diffPc' = "recv"
           /\ connOpen' = connOpen
           /\ ws' \in connOpen' ]_vars

\* C26: once a call has finished its own refresh with a 200 response, each of
\* its lookups of a pair of that response succeeds, whatever other tasks do.
C26_LookupsAfterOwnRefreshSucceed ==
    [][ /\ ( /\ RefreshPending("snap") /\ ~RefreshPending("snap")'
              /\ snapPc' # "done"
              /\ lastRefresh' = "200"
              /\ SnapPair \in ListedPairs(lastInstruments') )
            => snapPc' = "orderbook"
        /\ ( /\ pricePc = "level1"
              /\ priceIdx < Len(TradingPairs)
              /\ TradingPairs[priceIdx + 1] \in priceListed )
            => priceOutcome' # "KeyError" ]_vars

----
(* Claims about NdaxExchange *)

\* C27: every order has at most one event, an order whose task has ended
\* otherwise than by cancellation has exactly one, and that event is the
\* order-created event of its side or the order-failure event.
C27_OneEventPerOrder ==
    \A id \in DOMAIN orders :
        /\ Len(orderEvents[id]) <= 1
        /\ \A k \in DOMAIN orderEvents[id] :
              orderEvents[id][k] \in {CreatedEvent(orders[id].trade_type), "OrderFailure"}
        /\ (orders[id].pc = "done" /\ orders[id].outcome # "cancelled")
              => Len(orderEvents[id]) = 1

\* The records of a body from which a trading rule can be built.
ParsableRecords(body) == {i \in DOMAIN body : Parsable(body[i])}

\* C30: a trading rules request that fails leaves the cached rules as they
\* were and is followed by a sleep of 0.5 s and then by the next request; the
\* loop ends only by cancellation; a request that succeeds installs the rule of
\* every record of the body that can be parsed and skips the others.
C30_FailedRulesRefreshKeepsRules ==
    [][ /\ (rulesPc = "request" /\ rulesPc' = "sleep" /\ rulesLast'.status # "200")
            => /\ tradingRules' = tradingRules
               /\ rulesSleep' = 500
        /\ (rulesPc = "request" /\ rulesPc' = "sleep" /\ rulesLast'.status = "200")
            => LET body == rulesLast'.body
               IN  /\ DOMAIN tradingRules'
                        = {PairKey(body[i]) : i \in ParsableRecords(body)}
                   /\ \A i \in ParsableRecords(body) :
                         tradingRules'[PairKey(body[i])] = body[i].MinimumQuantity
        /\ (rulesPc = "sleep" /\ rulesPc' # "sleep")
            => rulesPc' = "request" \/ rulesOutcome' = "cancelled"
        /\ rulesPc' = "done" => rulesOutcome' = "cancelled" ]_vars

\* A request has failed after an earlier one had installed the rules of the
\* two parsable records of a body with a record that cannot be parsed.
C30_Witness ==
    /\ rulesPc = "sleep"
    /\ rulesSleep = 500
    /\ rulesLast.status = "non200"
    /\ DOMAIN tradingRules = {"BTC-CAD", "ETH-CAD"}

\* C28: the two balance maps always have the same assets, and when an
\* _update_balances call has applied its response they have exactly the assets of
\* that response.
C28_BalanceMapsMatchResponse ==
    [][ /\ DOMAIN accountBalances' = DOMAIN accountAvailableBalances'
        /\ (statusPc = "update" /\ statusPc' = "wait")
             => DOMAIN accountBalances' = balancesLast' ]_vars

\* C29: a tick that has crossed a poll boundary is not lost: while no update
\* has started since that tick, the loop is not left waiting for an event that
\* is not set.
C29_NotificationNotLost ==
    (pollDue /\ statusPc = "wait") => pollNotifierSet

----
(* Claim about the two loops and the consumer of the queue *)

\* The quantity the book holds at the level (0: no level).
BookQty == IF SyncPrice \in DOMAIN book.bids THEN book.bids[SyncPrice] ELSE 0

\* Every frame and response has been received and every message consumed.
AllConsumed == wsPipe = <<>> /\ restPc # "inflight" /\ syncQueue = <<>>

\* C23: once every emitted message has been consumed and a REST snapshot has
\* been applied, the book holds the level as the exchange holds it: no change
\* the exchange made after the content of the snapshot was generated is lost.
C23_NoUpdateLostBySnapshot ==
    (AllConsumed /\ snapshotsApplied > 0) => BookQty = exchangeQty

====
